---- MODULE Spec2Model ----
(***************************************************************************)
(* Model of package codeowners (codeowners/codeowners.go): Get parses a    *)
(* CODEOWNERS manifest into ordered rules, Match selects the last rule     *)
(* matching a path and expands its owner tokens in concurrent goroutines   *)
(* that report over two unbuffered channels, under a cancellable context.  *)
(*                                                                         *)
(* Go strings are sequences of one-character strings, so that the string   *)
(* operations of the code (HasPrefix, Contains, Index, slicing, Split,     *)
(* Fields, glob matching, address parsing) are computed, not assumed.      *)
(***************************************************************************)
EXTENDS Integers, Sequences, FiniteSets, TLC

\* ------------------------------------------------------------------ bounds
MaxTokLen == 4      \* owner tokens of the one-token family: every string up to this length
MaxMembers == 2     \* members a team listing returns
MaxOwners == 2      \* owner tokens on one manifest line
MaxRules == 2       \* rule lines of a manifest in the rule family

\* ------------------------------------------------------- strings (Go strings)
Range(s) == {s[i] : i \in DOMAIN s}

\* s[lo:hi] of Go, indices counted from 0
Slice(s, lo, hi) == SubSeq(s, lo + 1, hi)

HasPrefix(s, p) == Len(s) >= Len(p) /\ SubSeq(s, 1, Len(p)) = p

Contains(s, c) == c \in Range(s)

\* strings.Index for a one-character separator: 0-based, -1 when absent
Index(s, c) ==
    IF c \in Range(s)
    THEN (CHOOSE i \in DOMAIN s : s[i] = c /\ \A j \in 1..(i - 1) : s[j] # c) - 1
    ELSE -1

RECURSIVE Split(_, _)
\* strings.Split(s, sep) for a one-character separator
Split(s, sep) ==
    IF Index(s, sep) < 0
    THEN <<s>>
    ELSE <<Slice(s, 0, Index(s, sep))>> \o Split(Slice(s, Index(s, sep) + 1, Len(s)), sep)

IsSpace(c) == c \in {" ", "\t", "\r"}

RECURSIVE Fields(_)
\* strings.Fields: the maximal runs of non-space characters
Fields(s) ==
    IF s = <<>> THEN <<>>
    ELSE IF IsSpace(s[1]) THEN Fields(Tail(s))
    ELSE LET stop == IF \E i \in DOMAIN s : IsSpace(s[i])
                     THEN (CHOOSE i \in DOMAIN s : IsSpace(s[i]) /\ \A j \in 1..(i - 1) : ~IsSpace(s[j])) - 1
                     ELSE Len(s)
         IN <<SubSeq(s, 1, stop)>> \o Fields(SubSeq(s, stop + 1, Len(s)))

RECURSIVE Join(_, _)
\* strings.Join
Join(ss, sep) ==
    IF ss = <<>> THEN <<>>
    ELSE IF Len(ss) = 1 THEN ss[1]
    ELSE ss[1] \o sep \o Join(Tail(ss), sep)

\* ------------------------------------------- doublestar.Match (glob library)
RECURSIVE matchComponent(_, _)
\* one path component against one pattern component: '*' is any run of
\* characters, '?' any one character, every other character itself
matchComponent(pattern, name) ==
    IF pattern = <<>> THEN name = <<>>
    ELSE IF pattern[1] = "*"
         THEN \E k \in 0..Len(name) : matchComponent(Tail(pattern), SubSeq(name, k + 1, Len(name)))
    ELSE IF name = <<>> THEN FALSE
    ELSE IF pattern[1] = "?" THEN matchComponent(Tail(pattern), Tail(name))
    ELSE pattern[1] = name[1] /\ matchComponent(Tail(pattern), Tail(name))

RECURSIVE doMatching(_, _)
\* components against components: a "**" component is any run of components
doMatching(pcs, ncs) ==
    IF pcs = <<>> /\ ncs = <<>> THEN TRUE
    ELSE IF pcs = <<>> \/ ncs = <<>> THEN FALSE
    ELSE IF pcs[1] = <<"*", "*">>
         THEN IF Len(pcs) = 1 THEN TRUE
              ELSE \E k \in 0..(Len(ncs) - 1) : doMatching(Tail(pcs), SubSeq(ncs, k + 1, Len(ncs)))
    ELSE matchComponent(pcs[1], ncs[1]) /\ doMatching(Tail(pcs), Tail(ncs))

DoublestarMatch(pattern, name) == doMatching(Split(pattern, "/"), Split(name, "/"))

\* ---------------------------------------------- mail.ParseAddress (net/mail)
\* atext of RFC 5322: everything but the specials, white space and the dot
IsAtext(c) == c \notin {"@", "<", ">", "(", ")", "[", "]", ":", ";", ",", ".", "\\", "\"", " ", "\t", "\r"}

\* length of the longest prefix of s made of atext
AtomLen(s) ==
    IF \E i \in DOMAIN s : ~IsAtext(s[i])
    THEN (CHOOSE i \in DOMAIN s : ~IsAtext(s[i]) /\ \A j \in 1..(i - 1) : IsAtext(s[j])) - 1
    ELSE Len(s)

\* addr-spec = atom "@" atom at the head of s; rest is what follows it
consumeAddrSpec(s) ==
    LET l == AtomLen(s)
        afterAt == SubSeq(s, l + 2, Len(s))
        d == AtomLen(afterAt)
    IN IF l > 0 /\ Len(s) > l /\ s[l + 1] = "@" /\ d > 0
       THEN [ok |-> TRUE, spec |-> SubSeq(s, 1, l + 1 + d), rest |-> SubSeq(afterAt, d + 1, Len(afterAt))]
       ELSE [ok |-> FALSE, spec |-> <<>>, rest |-> s]

\* a single address: addr-spec, or [display-name] "<" addr-spec ">"
ParseAddress(s) ==
    LET bare == consumeAddrSpec(s)
        n == AtomLen(s)
        angle == SubSeq(s, n + 1, Len(s))
        inner == consumeAddrSpec(Tail(angle))
    IN IF bare.ok
       THEN [ok |-> bare.rest = <<>>, Address |-> IF bare.rest = <<>> THEN bare.spec ELSE <<>>]
       ELSE IF angle # <<>> /\ angle[1] = "<" /\ inner.ok /\ inner.rest = <<">">>
       THEN [ok |-> TRUE, Address |-> inner.spec]
       ELSE [ok |-> FALSE, Address |-> <<>>]

\* --------------------------------------------------------------- values
\* a *string that is nil is <<>>, one that points to s is <<s>>
User(login, name, email) == [Login |-> login, Name |-> name, Email |-> email]

Err(kind, arg) == [kind |-> kind, arg |-> arg]

NoMsg == [tag |-> "none", user |-> User(<<>>, <<>>, <<>>), err |-> Err("", <<>>)]
DataMsg(u) == [tag |-> "data", user |-> u, err |-> Err("", <<>>)]
ErrMsg(e) == [tag |-> "err", user |-> User(<<>>, <<>>, <<>>), err |-> e]

NilOwners == [isnil |-> TRUE, elems |-> <<>>]

codeOwner(p, o) == [path |-> p, owners |-> o]

\* ---------------------------------------------------------------- state
VARIABLES
    gh,          \* the remote service: manifest files, org and its teams, team members, users
    path,        \* the path the caller passes to Match
    others,      \* calls of Get by other callers of the package still to come
    client,      \* package variable client (0 is nil)
    patterns,    \* co.patterns of the codeOwners value Get returned
    mpc,         \* where the caller is: in Get, in Match, or returned
    idx,         \* loop index of Match's range loops
    owners,      \* local owners of Match
    users,       \* result users of Match: what was received, by whom sent, whether after ctx was done
    errors,      \* result error_slice of Match, likewise
    err_closed,  \* local err_closed of Match
    data_closed, \* local data_closed of Match
    tasks,       \* the goroutines of one Match call, by <<owner index, depth, member index>>
    wg,          \* counter of the sync.WaitGroup ch.wait
    cpc,         \* the goroutine that waits for the group and closes the channels
    chData,      \* ch.data is "open" or "closed"
    chErr,       \* ch.err is "open" or "closed"
    ctxDone,     \* ctx.Done() is closed
    calls        \* every request made to the remote service so far

vars == <<gh, path, others, client, patterns, mpc, idx, owners, users, errors, err_closed,
          data_closed, tasks, wg, cpc, chData, chErr, ctxDone, calls>>

matchVars == <<owners, users, errors, err_closed, data_closed>>
asyncVars == <<tasks, wg, cpc, chData, chErr>>

\* a request: the method, its string or number argument, the client it is made
\* with and the goroutine that makes it (<<0, 0, 0>> is the caller)
Call(api, arg, id, by, from) == [api |-> api, arg |-> arg, id |-> id, client |-> by, from |-> from]

\* --------------------------------------------------------- remote service
\* client.Repositories.GetContents for one file path
GetContents(file) ==
    IF file \in DOMAIN gh.files
    THEN [ok |-> TRUE, content |-> gh.files[file]]
    ELSE [ok |-> FALSE, content |-> <<>>]

\* client.Organizations.ListTeams
ListTeams(org) ==
    IF org = gh.org
    THEN [ok |-> TRUE, teams |-> gh.teams, err |-> Err("", <<>>)]
    ELSE [ok |-> FALSE, teams |-> <<>>, err |-> Err("Remote", org)]

\* client.Organizations.ListTeamMembers
ListTeamMembers(id) ==
    IF id \in DOMAIN gh.members
    THEN [ok |-> TRUE, users |-> gh.members[id], err |-> Err("", <<>>)]
    ELSE [ok |-> FALSE, users |-> <<>>, err |-> Err("Remote", <<>>)]

\* client.Users.Get
UsersGet(name) ==
    IF name \in gh.users
    THEN [ok |-> TRUE, user |-> User(<<name>>, <<name>>, <<>>), err |-> Err("", <<>>)]
    ELSE [ok |-> FALSE, user |-> User(<<>>, <<>>, <<>>), err |-> Err("Remote", name)]

\* what a request made with ctx can return: the service's answer, or, once
\* ctx is done, the context's error instead
Answers(r) ==
    {r} \cup (IF ctxDone THEN {[r EXCEPT !.ok = FALSE, !.err = Err("Canceled", <<>>)]} ELSE {})

\* ------------------------------------------------------------------- Get
CODEOWNERS == <<"C", "O", "D", "E", "O", "W", "N", "E", "R", "S">>

files == << <<>>, <<"d", "o", "c", "s", "/">>, <<".", "g", "i", "t", "h", "u", "b", "/">> >>

RECURSIVE fetchFromNoReturn(_)
\* fetchFrom without the return in its loop: every location is requested and
\* the content of the last one that can be got is kept
fetchFromNoReturn(i) ==
    IF i > Len(files) THEN [ok |-> FALSE, content |-> <<>>, tried |-> {}]
    ELSE LET file == files[i] \o CODEOWNERS
             got == GetContents(file)
             more == fetchFromNoReturn(i + 1)
         IN IF got.ok /\ ~more.ok
            THEN [ok |-> TRUE, content |-> got.content, tried |-> more.tried \cup {file}]
            ELSE [more EXCEPT !.tried = @ \cup {file}]

RECURSIVE fetchFrom(_)
\* fetch, from the i-th location on: the first content that can be got
fetchFrom(i) ==
    IF i > Len(files) THEN [ok |-> FALSE, content |-> <<>>, tried |-> {}]
    ELSE LET file == files[i] \o CODEOWNERS
             got == GetContents(file)
             more == fetchFrom(i + 1)
         IN IF got.ok
            THEN [ok |-> TRUE, content |-> got.content, tried |-> {file}]
            ELSE [more EXCEPT !.tried = @ \cup {file}]

fetch == fetchFrom(1)

\* parseLine without the rewriting of the pattern "*"
parseLineAsWritten(line) ==
    LET words == Fields(line)
    IN IF Len(words) > 1 THEN <<codeOwner(words[1], Tail(words))>> ELSE <<>>

\* the body of Get's loop for one line
parseLine(line) ==
    LET words == Fields(line)
    IN IF Len(words) > 1
       THEN <<codeOwner(IF words[1] = <<"*">> THEN <<"*", "*">> ELSE words[1], Tail(words))>>
       ELSE <<>>

RECURSIVE parseLines(_)
parseLines(lines) ==
    IF lines = <<>> THEN <<>> ELSE parseLine(lines[1]) \o parseLines(Tail(lines))

Get ==
    /\ mpc = "get"
    /\ client' = 1
    /\ calls' = calls \cup {Call("GetContents", f, 0, 1, <<0, 0, 0>>) : f \in fetch.tried}
    /\ IF fetch.ok
       THEN /\ patterns' = parseLines(Split(fetch.content, "\n"))
            /\ mpc' = "call"
       ELSE /\ patterns' = <<>>
            /\ mpc' = "get_err"
    /\ UNCHANGED <<gh, path, others, idx, matchVars, asyncVars, ctxDone>>

\* Get called by another user of the package, with a client of its own: the
\* package variable is overwritten, the manifest is fetched with that client;
\* what it returns stays with that caller
OtherGet ==
    /\ others > 0
    /\ others' = others - 1
    /\ client' = 2
    /\ calls' = calls \cup {Call("GetContents", f, 0, 2, <<0, 0, 1>>) : f \in fetch.tried}
    /\ UNCHANGED <<gh, path, patterns, mpc, idx, matchVars, asyncVars, ctxDone>>

\* ------------------------------------------------------- Match: selection
MatchCall ==
    /\ mpc = "call"
    /\ mpc' = "select"
    /\ idx' = 1
    /\ owners' = NilOwners
    /\ users' = <<>>
    /\ errors' = <<>>
    /\ UNCHANGED <<gh, path, others, client, patterns, err_closed, data_closed, asyncVars, ctxDone, calls>>

\* MatchSelect keeping the first rule that matches instead of the last
MatchSelectFirstWins ==
    /\ mpc = "select"
    /\ idx <= Len(patterns)
    /\ owners' = IF DoublestarMatch(patterns[idx].path, path) /\ owners.isnil
                 THEN [isnil |-> FALSE, elems |-> patterns[idx].owners]
                 ELSE owners
    /\ idx' = idx + 1
    /\ UNCHANGED <<gh, path, others, client, patterns, mpc, users, errors, err_closed, data_closed,
                   asyncVars, ctxDone, calls>>

\* one iteration of the loop over co.patterns
MatchSelect ==
    /\ mpc = "select"
    /\ idx <= Len(patterns)
    /\ owners' = IF DoublestarMatch(patterns[idx].path, path)
                 THEN [isnil |-> FALSE, elems |-> patterns[idx].owners]
                 ELSE owners
    /\ idx' = idx + 1
    /\ UNCHANGED <<gh, path, others, client, patterns, mpc, users, errors, err_closed, data_closed,
                   asyncVars, ctxDone, calls>>

\* MatchNotFound without its return: the error is recorded and Match goes on
MatchNotFoundGoesOn ==
    /\ mpc = "select"
    /\ idx > Len(patterns)
    /\ owners.isnil
    /\ errors' = Append(errors, [val |-> Err("NotFound", <<>>), from |-> <<0, 0, 0>>, late |-> ctxDone, sentLate |-> ctxDone])
    /\ users' = <<>>
    /\ mpc' = "spawn"
    /\ idx' = 1
    /\ UNCHANGED <<gh, path, others, client, patterns, owners, err_closed, data_closed,
                   asyncVars, ctxDone, calls>>

\* owners == nil after the loop: return nil and the one error
MatchNotFound ==
    /\ mpc = "select"
    /\ idx > Len(patterns)
    /\ owners.isnil
    /\ errors' = Append(errors, [val |-> Err("NotFound", <<>>), from |-> <<0, 0, 0>>, late |-> ctxDone, sentLate |-> ctxDone])
    /\ users' = <<>>
    /\ mpc' = "ret_nomatch"
    /\ UNCHANGED <<gh, path, others, client, patterns, idx, owners, err_closed, data_closed,
                   asyncVars, ctxDone, calls>>

MatchFound ==
    /\ mpc = "select"
    /\ idx > Len(patterns)
    /\ ~owners.isnil
    /\ mpc' = "spawn"
    /\ idx' = 1
    /\ UNCHANGED <<gh, path, others, client, patterns, matchVars, asyncVars, ctxDone, calls>>

\* ------------------------------------------------------------ goroutines
\* A goroutine's pc is "start", a wait for an answer of the remote service,
\* "spawn" (the loop of expandteam), "send" (blocked in a channel send) or
\* "done". Every goroutine defers ch.wait.Done(): the step that ends it
\* decrements the counter. The step that receives from the channel ends the
\* sender, which has nothing left to do but return.
Task(kind, arg) ==
    [kind |-> kind, pc |-> "start", arg |-> arg, msg |-> NoMsg,
     org |-> <<>>, slug |-> <<>>, teamid |-> 0, list |-> <<>>, k |-> 0, sentLate |-> FALSE]

Spawned(id) == id \in DOMAIN tasks

\* ch.wait.Add(1); go f(arg, ctx, ch)
Go(id, kind, arg) == id :> Task(kind, arg)

\* one iteration of the loop over owners
MatchSpawn ==
    /\ mpc = "spawn"
    /\ idx <= Len(owners.elems)
    /\ wg' = wg + 1
    /\ tasks' = tasks @@ Go(<<idx, 0, 0>>, "expandowners", owners.elems[idx])
    /\ idx' = idx + 1
    /\ UNCHANGED <<gh, path, others, client, patterns, mpc, matchVars, cpc, chData, chErr, ctxDone, calls>>

\* go func() { ch.wait.Wait(); ... }() and the two flags of the receive loop
MatchSpawnCloser ==
    /\ mpc = "spawn"
    /\ idx > Len(owners.elems)
    /\ cpc' = "wait"
    /\ err_closed' = FALSE
    /\ data_closed' = FALSE
    /\ mpc' = "loop"
    /\ UNCHANGED <<gh, path, others, client, patterns, idx, owners, users, errors, tasks, wg,
                   chData, chErr, ctxDone, calls>>

\* ownerCase with the address case tried before the login case
ownerCaseEmailFirst(ownertext) ==
    IF HasPrefix(ownertext, <<"@">>) /\ Contains(ownertext, "/") THEN "expandteam"
    ELSE IF Contains(ownertext, "@") THEN "finduseremail"
    ELSE IF HasPrefix(ownertext, <<"@">>) THEN "fetchuser"
    ELSE "default"

\* the switch of expandowners, its cases tried in order
ownerCase(ownertext) ==
    IF HasPrefix(ownertext, <<"@">>) /\ Contains(ownertext, "/") THEN "expandteam"
    ELSE IF HasPrefix(ownertext, <<"@">>) THEN "fetchuser"
    ELSE IF Contains(ownertext, "@") THEN "finduseremail"
    ELSE "default"

\* the argument expandowners passes to the goroutine it starts
ownerArg(ownertext) ==
    IF ownerCase(ownertext) = "fetchuser" THEN Slice(ownertext, 1, Len(ownertext)) ELSE ownertext

\* the goroutine reaches its channel send (sentLate: ctx was done by then)
toSend(t, m) == [tasks EXCEPT ![t].pc = "send", ![t].msg = m, ![t].sentLate = ctxDone]

expandowners(t) ==
    /\ Spawned(t)
    /\ tasks[t].kind = "expandowners"
    /\ tasks[t].pc = "start"
    /\ LET ownertext == tasks[t].arg
       IN IF ownerCase(ownertext) = "default"
          THEN /\ tasks' = toSend(t, ErrMsg(Err("InvalidToken", ownertext)))
               /\ wg' = wg
          ELSE /\ wg' = (wg + 1) - 1
               /\ tasks' = [tasks EXCEPT ![t].pc = "done"]
                               @@ Go(<<t[1], 1, 0>>, ownerCase(ownertext), ownerArg(ownertext))
    /\ UNCHANGED <<gh, path, others, client, patterns, mpc, idx, matchVars, cpc, chData, chErr, ctxDone, calls>>

\* fetchuser up to its request
fetchuserCall(t) ==
    /\ Spawned(t)
    /\ tasks[t].kind = "fetchuser"
    /\ tasks[t].pc = "start"
    /\ calls' = calls \cup {Call("Users.Get", tasks[t].arg, 0, client, t)}
    /\ tasks' = [tasks EXCEPT ![t].pc = "wait"]
    /\ UNCHANGED <<gh, path, others, client, patterns, mpc, idx, matchVars, wg, cpc, chData, chErr, ctxDone>>

\* fetchuser from the answer to its request on
fetchuserAnswer(t) ==
    /\ Spawned(t)
    /\ tasks[t].kind = "fetchuser"
    /\ tasks[t].pc = "wait"
    /\ \E r \in Answers(UsersGet(tasks[t].arg)) :
          tasks' = toSend(t, IF r.ok THEN DataMsg(r.user) ELSE ErrMsg(r.err))
    /\ UNCHANGED <<gh, path, others, client, patterns, mpc, idx, matchVars, wg, cpc, chData, chErr, ctxDone, calls>>

\* finduseremail without the address check: the token itself is the address
finduseremailUnchecked(t) ==
    /\ Spawned(t)
    /\ tasks[t].kind = "finduseremail"
    /\ tasks[t].pc = "start"
    /\ tasks' = toSend(t, DataMsg(User(<<>>, <<>>, <<tasks[t].arg>>)))
    /\ UNCHANGED <<gh, path, others, client, patterns, mpc, idx, matchVars, wg, cpc, chData, chErr, ctxDone, calls>>

finduseremail(t) ==
    /\ Spawned(t)
    /\ tasks[t].kind = "finduseremail"
    /\ tasks[t].pc = "start"
    /\ LET e == ParseAddress(tasks[t].arg)
       IN tasks' = toSend(t, IF e.ok
                             THEN DataMsg(User(<<>>, <<>>, <<e.Address>>))
                             ELSE ErrMsg(Err("InvalidEmail", tasks[t].arg)))
    /\ UNCHANGED <<gh, path, others, client, patterns, mpc, idx, matchVars, wg, cpc, chData, chErr, ctxDone, calls>>

RECURSIVE findTeam(_, _)
\* the loop of expandteam over teams: the ID of the first team with the slug, else 0
findTeam(teams, teamname) ==
    IF teams = <<>> THEN 0
    ELSE IF teamname = teams[1].Slug THEN teams[1].ID
    ELSE findTeam(Tail(teams), teamname)

\* expandteam up to its first request
expandteamCall(t) ==
    /\ Spawned(t)
    /\ tasks[t].kind = "expandteam"
    /\ tasks[t].pc = "start"
    /\ LET fullteam == tasks[t].arg
           split == Index(fullteam, "/")
           org == Slice(fullteam, 1, split)
       IN /\ calls' = calls \cup {Call("ListTeams", org, 0, client, t)}
          /\ tasks' = [tasks EXCEPT ![t].pc = "wait_teams", ![t].org = org,
                                    ![t].slug = Slice(fullteam, split + 1, Len(fullteam))]
    /\ UNCHANGED <<gh, path, others, client, patterns, mpc, idx, matchVars, wg, cpc, chData, chErr, ctxDone>>

\* expandteam from the answer of ListTeams up to its second request
expandteamTeams(t) ==
    /\ Spawned(t)
    /\ tasks[t].kind = "expandteam"
    /\ tasks[t].pc = "wait_teams"
    /\ \E r \in Answers(ListTeams(tasks[t].org)) :
          LET teamname == tasks[t].slug
              teamid == findTeam(r.teams, teamname)
          IN IF ~r.ok
             THEN /\ tasks' = toSend(t, ErrMsg(r.err))
                  /\ calls' = calls
             ELSE IF teamid = 0
             THEN /\ tasks' = toSend(t, ErrMsg(Err("TeamNotFound", teamname)))
                  /\ calls' = calls
             ELSE /\ tasks' = [tasks EXCEPT ![t].pc = "wait_members", ![t].teamid = teamid]
                  /\ calls' = calls \cup {Call("ListTeamMembers", <<>>, teamid, client, t)}
    /\ UNCHANGED <<gh, path, others, client, patterns, mpc, idx, matchVars, wg, cpc, chData, chErr, ctxDone>>

\* expandteam from the answer of ListTeamMembers on
expandteamMembers(t) ==
    /\ Spawned(t)
    /\ tasks[t].kind = "expandteam"
    /\ tasks[t].pc = "wait_members"
    /\ \E r \in Answers(ListTeamMembers(tasks[t].teamid)) :
          IF ~r.ok
          THEN /\ tasks' = toSend(t, ErrMsg(r.err))
               /\ wg' = wg
          ELSE IF r.users = <<>>
          THEN /\ tasks' = [tasks EXCEPT ![t].pc = "done"]
               /\ wg' = wg - 1
          ELSE /\ tasks' = [tasks EXCEPT ![t].pc = "spawn", ![t].list = r.users, ![t].k = 1]
               /\ wg' = wg
    /\ UNCHANGED <<gh, path, others, client, patterns, mpc, idx, matchVars, cpc, chData, chErr, ctxDone, calls>>

\* expandteamSpawn with every goroutine given the last member of the list
expandteamSpawnLast(t) ==
    /\ Spawned(t)
    /\ tasks[t].kind = "expandteam"
    /\ tasks[t].pc = "spawn"
    /\ LET k == tasks[t].k
       IN /\ wg' = IF k = Len(tasks[t].list) THEN (wg + 1) - 1 ELSE wg + 1
          /\ tasks' = [tasks EXCEPT ![t].k = k + 1,
                                    ![t].pc = IF k = Len(tasks[t].list) THEN "done" ELSE "spawn"]
                          @@ Go(<<t[1], 2, k>>, "fetchuser", tasks[t].list[Len(tasks[t].list)])
    /\ UNCHANGED <<gh, path, others, client, patterns, mpc, idx, matchVars, cpc, chData, chErr, ctxDone, calls>>

\* expandteamSpawn without ch.wait.Add(1) before its go statement
expandteamSpawnNoAdd(t) ==
    /\ Spawned(t)
    /\ tasks[t].kind = "expandteam"
    /\ tasks[t].pc = "spawn"
    /\ LET k == tasks[t].k
       IN /\ wg' = IF k = Len(tasks[t].list) THEN wg - 1 ELSE wg
          /\ tasks' = [tasks EXCEPT ![t].k = k + 1,
                                    ![t].pc = IF k = Len(tasks[t].list) THEN "done" ELSE "spawn"]
                          @@ Go(<<t[1], 2, k>>, "fetchuser", tasks[t].list[k])
    /\ UNCHANGED <<gh, path, others, client, patterns, mpc, idx, matchVars, cpc, chData, chErr, ctxDone, calls>>

\* one iteration of the loop of expandteam over users
expandteamSpawn(t) ==
    /\ Spawned(t)
    /\ tasks[t].kind = "expandteam"
    /\ tasks[t].pc = "spawn"
    /\ LET k == tasks[t].k
       IN /\ wg' = IF k = Len(tasks[t].list) THEN (wg + 1) - 1 ELSE wg + 1
          /\ tasks' = [tasks EXCEPT ![t].k = k + 1,
                                    ![t].pc = IF k = Len(tasks[t].list) THEN "done" ELSE "spawn"]
                          @@ Go(<<t[1], 2, k>>, "fetchuser", tasks[t].list[k])
    /\ UNCHANGED <<gh, path, others, client, patterns, mpc, idx, matchVars, cpc, chData, chErr, ctxDone, calls>>

\* CloseData without the wait for the group
CloseDataNoWait ==
    /\ cpc = "wait"
    /\ chData' = "closed"
    /\ cpc' = "close_err"
    /\ UNCHANGED <<gh, path, others, client, patterns, mpc, idx, matchVars, tasks, wg, chErr, ctxDone, calls>>

\* ch.wait.Wait() returns; close(ch.data)
CloseData ==
    /\ cpc = "wait"
    /\ wg = 0
    /\ chData' = "closed"
    /\ cpc' = "close_err"
    /\ UNCHANGED <<gh, path, others, client, patterns, mpc, idx, matchVars, tasks, wg, chErr, ctxDone, calls>>

\* CloseErr without close(ch.err)
CloseErrSkipped ==
    /\ cpc = "close_err"
    /\ cpc' = "done"
    /\ UNCHANGED <<gh, path, others, client, patterns, mpc, idx, matchVars, tasks, wg, chData, chErr, ctxDone, calls>>

\* close(ch.err)
CloseErr ==
    /\ cpc = "close_err"
    /\ chErr' = "closed"
    /\ cpc' = "done"
    /\ UNCHANGED <<gh, path, others, client, patterns, mpc, idx, matchVars, tasks, wg, chData, ctxDone, calls>>

\* ------------------------------------------------- Match: the receive loop
InSelect == mpc = "loop" /\ ~(err_closed /\ data_closed)

\* what Match appends, with its history: the sender, whether ctx was done
\* when it was received, and whether ctx was done when the send began
Received(t) == [val |-> IF tasks[t].msg.tag = "data" THEN tasks[t].msg.user ELSE tasks[t].msg.err,
                from |-> t, late |-> ctxDone, sentLate |-> tasks[t].sentLate]

\* if err_closed && data_closed { return users, error_slice }
MatchReturn ==
    /\ mpc = "loop"
    /\ err_closed /\ data_closed
    /\ mpc' = "ret_closed"
    /\ UNCHANGED <<gh, path, others, client, patterns, idx, matchVars, asyncVars, ctxDone, calls>>

\* MatchCtxDone with a break that leaves the select, not the loop
MatchCtxDoneStays ==
    /\ InSelect
    /\ ctxDone
    /\ UNCHANGED vars

\* case <-ctx.Done(): return
MatchCtxDone ==
    /\ InSelect
    /\ ctxDone
    /\ mpc' = "ret_cancel"
    /\ UNCHANGED <<gh, path, others, client, patterns, idx, matchVars, asyncVars, ctxDone, calls>>

\* MatchRecvErr giving up at the first error: it is recorded and Match returns
MatchRecvErrAborts(t) ==
    /\ InSelect
    /\ Spawned(t)
    /\ tasks[t].pc = "send" /\ tasks[t].msg.tag = "err"
    /\ errors' = Append(errors, Received(t))
    /\ tasks' = [tasks EXCEPT ![t].pc = "done"]
    /\ wg' = wg - 1
    /\ mpc' = "ret_closed"
    /\ UNCHANGED <<gh, path, others, client, patterns, idx, owners, users, err_closed, data_closed,
                   cpc, chData, chErr, ctxDone, calls>>

\* case err, err_ok := <-ch.err, a sender being ready on the unbuffered channel
MatchRecvErr(t) ==
    /\ InSelect
    /\ Spawned(t)
    /\ tasks[t].pc = "send" /\ tasks[t].msg.tag = "err"
    /\ errors' = Append(errors, Received(t))
    /\ tasks' = [tasks EXCEPT ![t].pc = "done"]
    /\ wg' = wg - 1
    /\ UNCHANGED <<gh, path, others, client, patterns, mpc, idx, owners, users, err_closed, data_closed,
                   cpc, chData, chErr, ctxDone, calls>>

\* the same case, ch.err being closed
MatchErrClosed ==
    /\ InSelect
    /\ chErr = "closed"
    /\ err_closed' = TRUE
    /\ UNCHANGED <<gh, path, others, client, patterns, mpc, idx, owners, users, errors, data_closed,
                   asyncVars, ctxDone, calls>>

\* case user, data_ok := <-ch.data, a sender being ready
MatchRecvData(t) ==
    /\ InSelect
    /\ Spawned(t)
    /\ tasks[t].pc = "send" /\ tasks[t].msg.tag = "data"
    /\ users' = Append(users, Received(t))
    /\ tasks' = [tasks EXCEPT ![t].pc = "done"]
    /\ wg' = wg - 1
    /\ UNCHANGED <<gh, path, others, client, patterns, mpc, idx, owners, errors, err_closed, data_closed,
                   cpc, chData, chErr, ctxDone, calls>>

\* the same case, ch.data being closed
MatchDataClosed ==
    /\ InSelect
    /\ chData = "closed"
    /\ data_closed' = TRUE
    /\ UNCHANGED <<gh, path, others, client, patterns, mpc, idx, owners, users, errors, err_closed,
                   asyncVars, ctxDone, calls>>

\* the caller's context is cancelled or its deadline passes, while Match runs
Cancel ==
    /\ mpc \in {"call", "select", "spawn", "loop"}
    /\ ~ctxDone
    /\ ctxDone' = TRUE
    /\ UNCHANGED <<gh, path, others, client, patterns, mpc, idx, matchVars, asyncVars, calls>>

\* ------------------------------------------------------- initial states
Strs(S, n) == UNION {[1..k -> S] : k \in 1..n}

Team(slug, id) == [Slug |-> slug, ID |-> id]

TeamToken == <<"@", "a", "/", "t">>

Logins == {<<"a">>, <<"b">>}

\* a manifest line as it is written: the words, one space between them
Line(words) == Join(words, <<" ">>)

\* a manifest as it is written: the lines, a newline between them
Manifest(lines) == Join(lines, <<"\n">>)

Remote(fs, teams, members, known) ==
    [files |-> fs, org |-> <<"a">>, teams |-> teams, members |-> members, users |-> known]

AtRoot(content) == CODEOWNERS :> content

DefaultRemote(content) ==
    Remote(AtRoot(content), <<Team(<<"t">>, 1)>>, 1 :> << <<"a">>, <<"b">> >>, {<<"a">>})

Config(g, p) == [gh |-> g, path |-> p, others |-> 0]

\* one rule for every path, with one owner token: every short string
TokenConfigs ==
    {Config(Remote(AtRoot(Line(<<<<"*">>, tok>>)), <<Team(<<"a">>, 1)>>, 1 :> << <<"a">> >>, {<<"a">>}),
            <<"f">>) :
        tok \in Strs({"@", "/", "a"}, MaxTokLen)
                \cup {<<"<", "a", "@", "m", ">">>, <<"n", "<", "a", "@", "m", ">">>,
                      <<"a", "@", "m", ">">>, <<"a", "@", "m", "@", "n">>}}

TeamLists ==
    {<<>>, <<Team(<<"t">>, 1)>>, <<Team(<<"u">>, 2), Team(<<"t">>, 1)>>, <<Team(<<"t">>, 0)>>,
     <<Team(<<"T">>, 1)>>, <<Team(<<"t">>, 2), Team(<<"t">>, 1)>>}

MemberLists == {<<>>} \cup Strs(Logins, MaxMembers)

\* one rule with a team token, against every team listing and every member listing
TeamConfigs ==
    LET content == Line(<<<<"*">>, TeamToken>>)
    IN {Config(Remote(AtRoot(content), ts, 1 :> << <<"a">>, <<"b">> >>, {<<"a">>, <<"b">>}), <<"d", "/", "f">>) :
            ts \in TeamLists}
       \cup {Config(Remote(AtRoot(content), <<Team(<<"t">>, 1)>>, 1 :> ms, known), <<"d", "/", "f">>) :
                ms \in MemberLists, known \in {Logins, {<<"a">>}}}
       \cup {Config(Remote(AtRoot(content), <<Team(<<"t">>, 1)>>, 2 :> <<>>, Logins), <<"d", "/", "f">>)}

\* a team, a team the org has not, a user the service has not, an address,
\* and a token of no kind
OwnerTokens == {TeamToken, <<"@", "a", "/", "u">>, <<"@", "z">>, <<"a", "@", "m">>, <<"x">>}

\* up to MaxOwners tokens, repeated ones too, at most one of them a team. The
\* goroutines of a line differ by their token, not by its position, so of the
\* lists with the same tokens one is taken: the order of OwnerTokens above.
OwnerLists ==
    LET rank(t) == IF t = TeamToken THEN 1
                   ELSE IF Contains(t, "/") THEN 2
                   ELSE IF HasPrefix(t, <<"@">>) THEN 3
                   ELSE IF Contains(t, "@") THEN 4
                   ELSE 5
    IN {os \in Strs(OwnerTokens, MaxOwners) :
            /\ Cardinality({i \in DOMAIN os : Contains(os[i], "/")}) <= 1
            /\ \A i \in 1..(Len(os) - 1) : rank(os[i]) <= rank(os[i + 1])}

\* one rule with several owner tokens
OwnerConfigs ==
    {Config(Remote(AtRoot(Line(<<<<"*", "*">>>> \o os)), <<Team(<<"t">>, 1)>>,
                   1 :> << <<"a">>, <<"b">> >>, Logins),
            <<"t", "/", "f">>) : os \in OwnerLists}

\* a team without members next to another token: the expansion of the team
\* can be over before Match has started the goroutine of the other token
EmptyTeamConfigs ==
    {Config(Remote(AtRoot(Line(<<<<"*">>, TeamToken, tok>>)), <<Team(<<"t">>, 1)>>, 1 :> <<>>, Logins),
            <<"f">>) : tok \in {<<"@", "a">>, <<"a", "@", "m">>, <<"x">>}}

Patterns == {<<"*">>, <<"*", "*">>, <<"t", "/", "*">>, <<"d", "/", "*", "*">>, <<"f">>}

Paths == {<<"f">>, <<"t", "/", "f">>, <<"d", "/", "s", "/", "f">>}

\* the owner token of the i-th line of a manifest of RuleConfigs: an address
OwnerOf(i) == <<(<<"p", "q", "r", "s">>)[((i - 1) % 4) + 1], "@", "m">>

\* what the i-th line can be: a rule, an empty line, a pattern without owners, a comment
LinesAt(i) ==
    {Line(<<p, OwnerOf(i)>>) : p \in Patterns} \cup {<<>>, <<"t">>, Line(<<<<"#">>, <<"c">>>>)}

\* manifests of up to MaxRules lines, against every path
RuleConfigs ==
    LET all == UNION {LinesAt(i) : i \in 1..MaxRules}
        manifests == UNION {{m \in [1..n -> all] : \A i \in 1..n : m[i] \in LinesAt(i)} : n \in 1..MaxRules}
    IN {Config(DefaultRemote(Manifest(m)), p) : m \in manifests, p \in Paths}

\* the manifest at any of the three locations, a different one at each
FileConfigs ==
    LET at(i) == (files[i] \o CODEOWNERS) :> Line(<<<<"*">>, OwnerOf(i)>>)
        none == [f \in {} |-> <<>>]
        pick(S, i) == IF i \in S THEN at(i) ELSE none
    IN {Config(Remote(pick(S, 1) @@ pick(S, 2) @@ pick(S, 3), <<>>, none, {}), <<"f">>) :
            S \in SUBSET (1..3)}

\* a handle, an address and a team, with another caller of Get around
ClientConfigs ==
    {[Config(DefaultRemote(Line(<<<<"*">>, tok>>)), <<"f">>) EXCEPT !.others = 1] :
        tok \in {<<"@", "a">>, <<"a", "@", "m">>, TeamToken}}

Configs ==
    TokenConfigs \cup TeamConfigs \cup OwnerConfigs \cup EmptyTeamConfigs \cup RuleConfigs \cup FileConfigs
        \cup ClientConfigs

Init ==
    /\ \E c \in Configs : gh = c.gh /\ path = c.path /\ others = c.others
    /\ client = 0
    /\ patterns = <<>>
    /\ mpc = "get"
    /\ idx = 0
    /\ owners = NilOwners
    /\ users = <<>>
    /\ errors = <<>>
    /\ err_closed = FALSE
    /\ data_closed = FALSE
    /\ tasks = [t \in {} |-> Task("", <<>>)]
    /\ wg = 0
    /\ cpc = "none"
    /\ chData = "open"
    /\ chErr = "open"
    /\ ctxDone = FALSE
    /\ calls = {}

Next ==
    \/ Get
    \/ OtherGet
    \/ MatchCall
    \/ MatchSelect
    \/ MatchNotFound
    \/ MatchFound
    \/ MatchSpawn
    \/ MatchSpawnCloser
    \/ MatchReturn
    \/ MatchCtxDone
    \/ MatchErrClosed
    \/ MatchDataClosed
    \/ Cancel
    \/ CloseData
    \/ CloseErr
    \/ \E t \in DOMAIN tasks : expandowners(t)
    \/ \E t \in DOMAIN tasks : fetchuserCall(t)
    \/ \E t \in DOMAIN tasks : fetchuserAnswer(t)
    \/ \E t \in DOMAIN tasks : finduseremail(t)
    \/ \E t \in DOMAIN tasks : expandteamCall(t)
    \/ \E t \in DOMAIN tasks : expandteamTeams(t)
    \/ \E t \in DOMAIN tasks : expandteamMembers(t)
    \/ \E t \in DOMAIN tasks : expandteamSpawn(t)
    \/ \E t \in DOMAIN tasks : MatchRecvErr(t)
    \/ \E t \in DOMAIN tasks : MatchRecvData(t)

Spec == Init /\ [][Next]_vars

\* the caller's goroutine runs whenever it can; of the ready cases of a select
\* each is chosen sooner or later. Nothing is assumed of the remote service
\* or of the other goroutines.
MatchStep ==
    \/ MatchCall
    \/ MatchSelect
    \/ MatchNotFound
    \/ MatchFound
    \/ MatchSpawn
    \/ MatchSpawnCloser
    \/ MatchReturn
    \/ MatchCtxDone

LiveSpec == Spec /\ WF_vars(MatchStep)

\* a step of any goroutine of a call of Match: the caller's, the closing
\* one's, an expansion's (its requests to the service return); the
\* cancellation of ctx is not one
RunStep ==
    \/ MatchStep
    \/ MatchErrClosed
    \/ MatchDataClosed
    \/ CloseData
    \/ CloseErr
    \/ \E t \in DOMAIN tasks :
          \/ expandowners(t)
          \/ fetchuserCall(t)
          \/ fetchuserAnswer(t)
          \/ finduseremail(t)
          \/ expandteamCall(t)
          \/ expandteamTeams(t)
          \/ expandteamMembers(t)
          \/ expandteamSpawn(t)
          \/ MatchRecvErr(t)
          \/ MatchRecvData(t)

\* every goroutine that can take a step takes one sooner or later, and every
\* request to the service returns
FairSpec == Spec /\ WF_vars(RunStep)

\* ================================================================ claims
Max(S) == CHOOSE x \in S : \A y \in S : y <= x
Min(S) == CHOOSE x \in S : \A y \in S : x <= y

\* the rules whose pattern matches the path
Matching == {i \in DOMAIN patterns : DoublestarMatch(patterns[i].path, path)}

\* Match is past the selection of the rule and expands owners
Expanding == mpc \in {"spawn", "loop", "ret_closed", "ret_cancel"}

\* Match has started every expandowners goroutine it starts
AllSpawned == mpc \in {"loop", "ret_closed", "ret_cancel"}

Returned == mpc \in {"ret_nomatch", "ret_closed", "ret_cancel"}

\* the requests made to the service by the expansion (all but the manifest's)
ExpansionCalls == {c \in calls : c.api # "GetContents"}

\* the owner indices for which an expandowners goroutine was started
Expanded == {t[1] : t \in {u \in DOMAIN tasks : u[2] = 0}}

\* C1: Match expands the owners of the last rule, in manifest order, that
\* matches the path: once the rule is selected, owners is the owner list of
\* the matching rule with the greatest index, every expandowners goroutine
\* is given a token of that list at its own position, and once all are
\* started there is exactly one per token of that list.
LastMatchWins ==
    Expanding =>
        LET matching == Matching
            last == IF matching = {} THEN <<>> ELSE patterns[Max(matching)].owners
        IN /\ matching # {}
           /\ owners = [isnil |-> FALSE, elems |-> last]
           /\ \A t \in DOMAIN tasks :
                 t[2] = 0 => /\ t[1] \in DOMAIN last
                             /\ tasks[t].arg = last[t[1]]
           /\ AllSpawned => Expanded = DOMAIN last

\* C1 witness: two rules with different owners match, and Match has returned
\* the expansion of the later one
LastMatchWinsWitness ==
    /\ mpc = "ret_closed"
    /\ Cardinality(Matching) >= 2
    /\ patterns[Min(Matching)].owners # patterns[Max(Matching)].owners
    /\ Len(users) = 1
    /\ users[1].val.Email = <<patterns[Max(Matching)].owners[1]>>

\* C2: when no rule matches, Match returns no identity and the one error
\* NotFound, having started no goroutine, never incremented the counter and
\* made no request to the service; and in every call nothing of the
\* expansion exists before the selection of the rule has finished.
NoMatchShortCircuits ==
    /\ mpc \in {"get", "get_err", "call", "select", "ret_nomatch"} =>
          /\ DOMAIN tasks = {}
          /\ wg = 0
          /\ cpc = "none"
          /\ ExpansionCalls = {}
    /\ mpc \notin {"get", "get_err", "call", "select"} =>
          (Matching = {} <=> mpc = "ret_nomatch")
    /\ mpc = "ret_nomatch" =>
          /\ users = <<>>
          /\ Len(errors) = 1
          /\ errors[1].val = Err("NotFound", <<>>)

\* C2 witness: a manifest with rules, none of which matches the path
NoMatchWitness ==
    /\ mpc = "ret_nomatch"
    /\ patterns # <<>>
    /\ Len(errors) = 1

\* ---- what the service holds for a token, read off the token and gh alone
Count(seq, v) == Cardinality({k \in DOMAIN seq : seq[k] = v})

\* the same elements the same number of times
SameBag(s1, s2) == \A v \in Range(s1) \cup Range(s2) : Count(s1, v) = Count(s2, v)

IsTeamToken(tok) == tok # <<>> /\ tok[1] = "@" /\ \E i \in DOMAIN tok : tok[i] = "/"
IsHandleToken(tok) == tok # <<>> /\ tok[1] = "@" /\ \A i \in DOMAIN tok : tok[i] # "/"
IsEmailToken(tok) == (tok = <<>> \/ tok[1] # "@") /\ \E i \in DOMAIN tok : tok[i] = "@"
IsInvalidToken(tok) == \A i \in DOMAIN tok : tok[i] # "@"

FirstSlash(tok) == Min({i \in DOMAIN tok : tok[i] = "/"})
OrgOf(tok) == SubSeq(tok, 2, FirstSlash(tok) - 1)
SlugOf(tok) == SubSeq(tok, FirstSlash(tok) + 1, Len(tok))

\* the positions, in the org's team listing, of the teams with the token's slug
TeamHits(tok) == {i \in DOMAIN gh.teams : gh.teams[i].Slug = SlugOf(tok)}

\* the member listing the team token reaches, if it reaches one
ReachesMembers(tok) ==
    /\ OrgOf(tok) = gh.org
    /\ TeamHits(tok) # {}
    /\ gh.teams[Min(TeamHits(tok))].ID # 0
    /\ gh.teams[Min(TeamHits(tok))].ID \in DOMAIN gh.members

MembersOf(tok) == gh.members[gh.teams[Min(TeamHits(tok))].ID]

Known(logins) == SelectSeq(logins, LAMBDA l : l \in gh.users)
Unknown(logins) == SelectSeq(logins, LAMBDA l : l \notin gh.users)

Profile(l) == User(<<l>>, <<l>>, <<>>)

\* the identities a token stands for, in any order
ExpectedUsers(tok) ==
    IF IsTeamToken(tok)
    THEN IF ReachesMembers(tok)
         THEN [k \in DOMAIN Known(MembersOf(tok)) |-> Profile(Known(MembersOf(tok))[k])]
         ELSE <<>>
    ELSE IF IsHandleToken(tok)
    THEN IF Tail(tok) \in gh.users THEN <<Profile(Tail(tok))>> ELSE <<>>
    ELSE IF IsEmailToken(tok) /\ ParseAddress(tok).ok
    THEN <<User(<<>>, <<>>, <<ParseAddress(tok).Address>>)>>
    ELSE <<>>

\* the errors a token gives rise to, in any order
ExpectedErrors(tok) ==
    IF IsTeamToken(tok)
    THEN IF OrgOf(tok) # gh.org THEN <<Err("Remote", OrgOf(tok))>>
         ELSE IF TeamHits(tok) = {} \/ gh.teams[Min(TeamHits(tok))].ID = 0
         THEN <<Err("TeamNotFound", SlugOf(tok))>>
         ELSE IF ~ReachesMembers(tok) THEN <<Err("Remote", <<>>)>>
         ELSE [k \in DOMAIN Unknown(MembersOf(tok)) |-> Err("Remote", Unknown(MembersOf(tok))[k])]
    ELSE IF IsHandleToken(tok)
    THEN IF Tail(tok) \in gh.users THEN <<>> ELSE <<Err("Remote", Tail(tok))>>
    ELSE IF IsEmailToken(tok)
    THEN IF ParseAddress(tok).ok THEN <<>> ELSE <<Err("InvalidEmail", tok)>>
    ELSE <<Err("InvalidToken", tok)>>

\* what Match holds that came from the goroutines of the i-th owner token
From(seq, i) == SelectSeq(seq, LAMBDA r : r.from[1] = i)
Vals(seq) == [k \in DOMAIN seq |-> seq[k].val]

\* what Match holds that came from goroutine t
By(seq, t) == SelectSeq(seq, LAMBDA r : r.from = t)

\* every goroutine started for the i-th owner token has ended
Completed(i) ==
    /\ <<i, 0, 0>> \in DOMAIN tasks
    /\ \A t \in DOMAIN tasks : t[1] = i => tasks[t].pc = "done"

\* Match returned because both channels were closed, ctx never done
ReturnedUncancelled == mpc = "ret_closed" /\ ~ctxDone

\* C3: per-token errors never abort sibling expansions: when Match returns
\* uncancelled, every failing token of the rule has at least one error in the
\* returned errors, and every other token of the rule was expanded to
\* completion and all its identities are among the returned identities.
ErrorsDoNotAbortSiblings ==
    ReturnedUncancelled =>
        \A i \in DOMAIN owners.elems :
            ExpectedErrors(owners.elems[i]) # <<>> =>
                /\ From(errors, i) # <<>>
                /\ \A j \in DOMAIN owners.elems \ {i} :
                      /\ Completed(j)
                      /\ SameBag(Vals(From(users, j)), ExpectedUsers(owners.elems[j]))

\* C3 witness: a token that fails next to a team that resolves to two users
ErrorsDoNotAbortSiblingsWitness ==
    /\ ReturnedUncancelled
    /\ \E i, j \in DOMAIN owners.elems :
          /\ i # j
          /\ ExpectedErrors(owners.elems[i]) # <<>>
          /\ Len(ExpectedUsers(owners.elems[j])) = 2
          /\ Len(From(users, j)) = 2
          /\ From(errors, i) # <<>>

\* the messages the goroutines have handed over or are blocked sending
Sent(tag) == {t \in DOMAIN tasks : tasks[t].msg.tag = tag}

\* C4: when Match returns because both channels were closed, the returned
\* identities are the identities the goroutines sent and the returned errors
\* the errors they sent, each exactly once, none left unsent; and when ctx
\* was never done they are, as multisets, what the tokens of the rule stand
\* for, whatever the interleaving.
FanInLosesNothing ==
    mpc = "ret_closed" =>
        /\ \A t \in DOMAIN tasks : tasks[t].pc = "done"
        /\ \A t \in Sent("data") : Vals(By(users, t)) = <<tasks[t].msg.user>>
        /\ \A t \in Sent("err") : Vals(By(errors, t)) = <<tasks[t].msg.err>>
        /\ Len(users) = Cardinality(Sent("data"))
        /\ Len(errors) = Cardinality(Sent("err"))
        /\ ~ctxDone =>
              \A i \in DOMAIN owners.elems :
                 /\ SameBag(Vals(From(users, i)), ExpectedUsers(owners.elems[i]))
                 /\ SameBag(Vals(From(errors, i)), ExpectedErrors(owners.elems[i]))

\* C4 witness: identities of the members of a team and an error of another
\* token, all returned
FanInLosesNothingWitness ==
    /\ ReturnedUncancelled
    /\ Len(users) >= 2
    /\ Len(errors) >= 1
    /\ \E t \in DOMAIN tasks : t[2] = 2 /\ t[3] = 2

\* a request to the service is outstanding
Outstanding(t) == tasks[t].pc \in {"wait", "wait_teams", "wait_members"}

\* C5: cancellation unblocks the caller: once ctx is done, Match returns,
\* whether or not the outstanding requests ever complete.
CancelUnblocksMatch == ctxDone ~> Returned

\* C5 witness: Match has returned on ctx.Done() with the counter above zero
\* and a request still outstanding
CancelUnblocksMatchWitness ==
    /\ mpc = "ret_cancel"
    /\ wg > 0
    /\ \E t \in DOMAIN tasks : Outstanding(t)

\* C6: when ctx is done Match returns what it had accumulated: no identity
\* and no error that a goroutine sent after ctx was done is among the
\* returned ones (so none that was received after ctx was done either).
CancelReturnsWhatWasReceivedBefore ==
    mpc = "ret_cancel" =>
        /\ \A k \in DOMAIN users : ~users[k].sentLate
        /\ \A k \in DOMAIN errors : ~errors[k].sentLate

\* the expandteam goroutine has the member listing of its team
Listed(t) ==
    /\ tasks[t].kind = "expandteam"
    /\ tasks[t].pc = "spawn" \/ (tasks[t].pc = "done" /\ tasks[t].msg.tag = "none")

\* the fetchuser goroutines started by expandteam goroutine t
MemberTasks(t) == {u \in DOMAIN tasks : u[1] = t[1] /\ u[2] = 2}

\* C7: a team whose member listing succeeds with members m1..mN gets exactly
\* N fetchuser goroutines, the k-th for the k-th login; when Match returns
\* uncancelled and every member lookup succeeds, the token has yielded
\* exactly the identities of m1..mN and no error (none of either for N = 0).
TeamFansOutPerMember ==
    \A t \in DOMAIN tasks :
        Listed(t) =>
            /\ tasks[t].list = gh.members[tasks[t].teamid]
            /\ tasks[t].pc = "done" =>
                  MemberTasks(t) = {<<t[1], 2, k>> : k \in DOMAIN tasks[t].list}
            /\ tasks[t].pc = "spawn" =>
                  MemberTasks(t) = {<<t[1], 2, k>> : k \in 1..(tasks[t].k - 1)}
            /\ \A u \in MemberTasks(t) :
                  tasks[u].kind = "fetchuser" /\ tasks[u].arg = tasks[t].list[u[3]]
            /\ (ReturnedUncancelled /\ \A k \in DOMAIN tasks[t].list : tasks[t].list[k] \in gh.users) =>
                  /\ SameBag(Vals(From(users, t[1])),
                             [k \in DOMAIN tasks[t].list |-> Profile(tasks[t].list[k])])
                  /\ Len(From(users, t[1])) = Len(tasks[t].list)
                  /\ From(errors, t[1]) = <<>>

\* C7 witness: a team of two different members, both returned
TeamFansOutPerMemberWitness ==
    /\ ReturnedUncancelled
    /\ \E t \in DOMAIN tasks :
          /\ Listed(t)
          /\ Len(tasks[t].list) = 2
          /\ tasks[t].list[1] # tasks[t].list[2]
          /\ Len(From(users, t[1])) = 2
          /\ From(errors, t[1]) = <<>>

\* the requests made by the goroutines of the i-th owner token
CallsOf(i) == {c \in calls : c.from[1] = i}

\* the goroutines of the i-th owner token below its expandowners goroutine
Below(i) == {t \in DOMAIN tasks : t[1] = i /\ t[2] > 0}

\* the expandowners goroutine of the i-th owner token has run its switch
Switched(i) == <<i, 0, 0>> \in DOMAIN tasks /\ tasks[<<i, 0, 0>>].pc # "start"

\* C8: an address token is resolved with no request to the service: no
\* ListTeams, ListTeamMembers or Users.Get is ever made for it, and when
\* Match returns by the closed channels it has yielded, if the address is
\* valid, exactly one identity with the address as its only field, and
\* otherwise exactly one error, InvalidEmail, and no identity.
EmailNeedsNoRequest ==
    \A i \in DOMAIN owners.elems :
        LET tok == owners.elems[i]
        IN IsEmailToken(tok) =>
              /\ CallsOf(i) = {}
              /\ \A t \in Below(i) : t = <<i, 1, 0>> /\ tasks[t].kind = "finduseremail"
              /\ mpc = "ret_closed" =>
                    IF ParseAddress(tok).ok
                    THEN /\ Vals(From(users, i)) = <<User(<<>>, <<>>, <<ParseAddress(tok).Address>>)>>
                         /\ From(errors, i) = <<>>
                    ELSE /\ Vals(From(errors, i)) = <<Err("InvalidEmail", tok)>>
                         /\ From(users, i) = <<>>

\* C8 witness: an address in angle brackets was resolved to the bare
\* address, no request made
EmailNeedsNoRequestWitness ==
    /\ mpc = "ret_closed"
    /\ owners.elems = << <<"<", "a", "@", "m", ">">> >>
    /\ Vals(users) = <<User(<<>>, <<>>, << <<"a", "@", "m">> >>)>>
    /\ ExpansionCalls = {}

\* C9: every owner token takes exactly one of the four branches, tried in
\* the order team, login, address, invalid: '@' first and a '/' gives an
\* expandteam goroutine whose org is the text between '@' and the first '/'
\* and whose slug is the text after that '/'; '@' first and no '/' gives a
\* fetchuser goroutine for the text after '@'; '@' elsewhere gives a
\* finduseremail goroutine for the token; any other token gives one
\* InvalidToken error, no goroutine and no request.
ClassificationIsTotal ==
    \A i \in DOMAIN owners.elems :
        LET tok == owners.elems[i]
            eo == <<i, 0, 0>>
            child == <<i, 1, 0>>
        IN /\ Cardinality({b \in {"team", "login", "address", "invalid"} :
                             \/ b = "team" /\ IsTeamToken(tok)
                             \/ b = "login" /\ IsHandleToken(tok)
                             \/ b = "address" /\ IsEmailToken(tok)
                             \/ b = "invalid" /\ IsInvalidToken(tok)}) = 1
           /\ ~Switched(i) => Below(i) = {} /\ CallsOf(i) = {}
           /\ Switched(i) =>
                 /\ IsTeamToken(tok) =>
                       /\ child \in DOMAIN tasks
                       /\ tasks[child].kind = "expandteam"
                       /\ tasks[eo].msg.tag = "none"
                       /\ tasks[child].pc # "start" =>
                             /\ tok = <<"@">> \o tasks[child].org \o <<"/">> \o tasks[child].slug
                             /\ ~Contains(tasks[child].org, "/")
                             /\ \E c \in CallsOf(i) : c.api = "ListTeams" /\ c.arg = tasks[child].org
                 /\ IsHandleToken(tok) =>
                       /\ Below(i) = {child}
                       /\ tasks[child].kind = "fetchuser"
                       /\ <<"@">> \o tasks[child].arg = tok
                       /\ tasks[eo].msg.tag = "none"
                 /\ IsEmailToken(tok) =>
                       /\ Below(i) = {child}
                       /\ tasks[child].kind = "finduseremail"
                       /\ tasks[child].arg = tok
                       /\ tasks[eo].msg.tag = "none"
                 /\ IsInvalidToken(tok) =>
                       /\ Below(i) = {}
                       /\ CallsOf(i) = {}
                       /\ tasks[eo].msg = ErrMsg(Err("InvalidToken", tok))
                       /\ mpc = "ret_closed" => Vals(From(errors, i)) = <<Err("InvalidToken", tok)>>

\* C9 witness: a rule with a team and a token of no kind, both expanded
ClassificationIsTotalWitness ==
    /\ mpc = "ret_closed"
    /\ owners.elems = <<TeamToken, <<"x">>>>
    /\ tasks[<<1, 1, 0>>].org = <<"a">>
    /\ tasks[<<1, 1, 0>>].slug = <<"t">>
    /\ Vals(From(errors, 2)) = <<Err("InvalidToken", <<"x">>)>>

\* the words of the manifest lines that make a rule, in manifest order
RuleWords ==
    LET lines == Split(fetch.content, "\n")
    IN SelectSeq([k \in DOMAIN lines |-> Fields(lines[k])], LAMBDA ws : Len(ws) > 1)

\* a rule for the path and for every path of Paths
MatchesAll(pattern) == \A p \in Paths \cup {path} : DoublestarMatch(pattern, p)

\* C10: a manifest line whose pattern is exactly "*" is stored by Get as a
\* rule that matches every path, nested ones too; every other pattern is
\* stored as written.
RootWildcardNormalized ==
    mpc \notin {"get", "get_err"} =>
        LET words == RuleWords
        IN /\ Len(patterns) = Len(words)
           /\ \A k \in DOMAIN patterns :
                 /\ words[k][1] = <<"*">> => MatchesAll(patterns[k].path)
                 /\ words[k][1] # <<"*">> => patterns[k].path = words[k][1]

\* C10 witness: the pattern "*", which as written does not match the nested
\* path, was the rule Match chose for it
RootWildcardNormalizedWitness ==
    /\ mpc = "ret_closed"
    /\ path = <<"d", "/", "s", "/", "f">>
    /\ Len(RuleWords) = 1
    /\ RuleWords[1][1] = <<"*">>
    /\ ~DoublestarMatch(<<"*">>, path)
    /\ Matching = {1}
    /\ Len(users) = 1


\* the locations, by their index in files, the service has a manifest at
Retrievable == {i \in DOMAIN files : (files[i] \o CODEOWNERS) \in DOMAIN gh.files}

\* the file paths Get has requested
Requested == {c.arg : c \in {d \in calls : d.api = "GetContents" /\ d.from = <<0, 0, 0>>}}

Running == {t \in DOMAIN tasks : tasks[t].pc # "done"}

\* Match has not yet done ch.wait.Add(1) for every token of the rule
TokensLeft == mpc = "spawn" /\ idx <= Len(owners.elems)

\* C12: the counter is the number of goroutines started and not yet ended,
\* so never negative and at least 1 whenever a goroutine runs, which covers
\* every goroutine a running one has still to start; the goroutine that
\* closes the channels exists only after Match's own increments, and from
\* then on the counter is zero only when nothing runs; each channel is closed
\* once, data before err, only at counter zero with every goroutine ended,
\* and no goroutine is in a send on a closed channel.
ClosedOnlyAfterAllDone ==
    /\ wg = Cardinality(Running)
    /\ wg >= 0
    /\ \A t \in Running : wg >= 1
    /\ cpc # "none" => ~TokensLeft /\ AllSpawned /\ Expanded = DOMAIN owners.elems
    /\ chData = "closed" <=> cpc \in {"close_err", "done"}
    /\ chErr = "closed" <=> cpc = "done"
    /\ chData = "closed" => wg = 0 /\ Running = {}
    /\ \A t \in DOMAIN tasks :
          tasks[t].pc = "send" =>
              IF tasks[t].msg.tag = "data" THEN chData = "open" ELSE chErr = "open"

\* C12 witness: a team fanned out to two members next to another token, every
\* goroutine ended, both channels closed, Match returned
ClosedOnlyAfterAllDoneWitness ==
    /\ mpc = "ret_closed"
    /\ chData = "closed" /\ chErr = "closed"
    /\ Cardinality(DOMAIN tasks) = 6
    /\ Cardinality({t \in DOMAIN tasks : t[2] = 2}) = 2
    /\ wg = 0

\* the counter back at zero while Match still has a token to start a
\* goroutine for: the closing goroutine does not exist yet
ZeroBeforeLastToken ==
    /\ TokensLeft
    /\ idx > 1
    /\ wg = 0
    /\ cpc = "none"

\* every goroutine has ended and the closing goroutine has closed both channels
AllOver == Running = {} /\ wg = 0 /\ chData = "closed" /\ chErr = "closed"

\* C13: after Match has returned because ctx was done, with every goroutine
\* scheduled and every request returning, every goroutine started ends, the
\* counter reaches zero and both channels are closed.
CancelledTasksFinish == (mpc = "ret_cancel") ~> AllOver

\* a goroutine is blocked in its send after Match returned on ctx.Done():
\* nothing receives from the channels any more
BlockedForever ==
    /\ mpc = "ret_cancel"
    /\ \E t \in Running : tasks[t].pc = "send"
    /\ ~ENABLED RunStep

\* C14: with every goroutine scheduled and every request returning, a call of
\* Match whose ctx is never done returns: with the one error NotFound when no
\* rule matches, else with every goroutine ended and both channels closed.
MatchTerminatesUncancelled ==
    (mpc = "call") ~> (ctxDone \/ mpc = "ret_nomatch" \/ (mpc = "ret_closed" /\ AllOver))

\* C14 witness: a rule with a team of two members and a token of no kind,
\* ctx never done, Match returned with the two users and the one error
MatchTerminatesUncancelledWitness ==
    /\ mpc = "ret_closed"
    /\ ~ctxDone
    /\ AllOver
    /\ owners.elems = <<TeamToken, <<"x">>>>
    /\ Len(users) = 2
    /\ Len(errors) = 1

\* C15: for a team token whose org's teams were listed, TeamNotFound is
\* signalled exactly when no listed team has the token's slug: with such a
\* team, whatever its ID, the members of the first one are requested and no
\* TeamNotFound is returned; without one the token leaves the one error
\* TeamNotFound, no request for members and no identity.
TeamNotFoundIffAbsent ==
    ReturnedUncancelled =>
        \A i \in DOMAIN owners.elems :
            LET tok == owners.elems[i]
                errs == Vals(From(errors, i))
                listings == {c \in CallsOf(i) : c.api = "ListTeamMembers"}
            IN (IsTeamToken(tok) /\ OrgOf(tok) = gh.org) =>
                  IF TeamHits(tok) # {}
                  THEN /\ \A k \in DOMAIN errs : errs[k].kind # "TeamNotFound"
                       /\ {c.id : c \in listings} = {gh.teams[Min(TeamHits(tok))].ID}
                  ELSE /\ errs = <<Err("TeamNotFound", SlugOf(tok))>>
                       /\ listings = {}
                       /\ From(users, i) = <<>>

\* the org lists a team with the token's slug and the ID 0, and Match has
\* returned TeamNotFound for the token
TeamWithIdZeroNotFound ==
    /\ ReturnedUncancelled
    /\ owners.elems = <<TeamToken>>
    /\ gh.teams = <<Team(<<"t">>, 0)>>
    /\ Vals(errors) = <<Err("TeamNotFound", <<"t">>)>>
    /\ ExpansionCalls = {Call("ListTeams", <<"a">>, 0, 1, <<1, 1, 0>>)}

\* C16: every request the goroutines of Match make to the service is made
\* with the client that was passed to the Get call that built the rules
\* being matched (client 1), whatever other calls of Get there are.
LookupsUseOwnClient == \A c \in ExpansionCalls : c.client = 1

\* Match has returned the profile a request made with the other caller's
\* client has fetched
OtherClientUsed ==
    /\ mpc = "ret_closed"
    /\ ~ctxDone
    /\ Len(users) = 1
    /\ \E c \in ExpansionCalls : c.api = "Users.Get" /\ c.client = 2 /\ c.from = users[1].from

\* a comment line: its first field begins with '#'
IsComment(words) == words # <<>> /\ words[1] # <<>> /\ words[1][1] = "#"

\* the words of the manifest lines with two fields or more that are no
\* comments, in manifest order
RuleLines ==
    LET lines == Split(fetch.content, "\n")
    IN SelectSeq([k \in DOMAIN lines |-> Fields(lines[k])],
                 LAMBDA ws : Len(ws) > 1 /\ ~IsComment(ws))

\* C17: the rules Get builds are, in manifest order, the lines of two fields
\* or more that are no comments, the owner tokens of each being the fields
\* after the first: a blank line, a pattern without owners and a comment
\* line add no rule and no owner token.
OnlyRuleLinesMakeRules ==
    mpc \notin {"get", "get_err"} =>
        LET rules == RuleLines
        IN /\ Len(patterns) = Len(rules)
           /\ \A k \in DOMAIN patterns :
                 /\ k \in DOMAIN rules
                 /\ patterns[k].path = (IF rules[k][1] = <<"*">> THEN <<"*", "*">> ELSE rules[k][1])
                 /\ patterns[k].owners = Tail(rules[k])

\* the manifest has the comment line "# c", and Get has made the rule with
\* pattern "#" and owner token "c" of it
CommentBecomesRule ==
    /\ mpc = "call"
    /\ \E k \in DOMAIN patterns : patterns[k] = codeOwner(<<"#">>, <<<<"c">>>>)
    /\ Len(patterns) = Len(RuleLines) + 1
====
